---- MODULE Spec2Model ----
(***************************************************************************)
(* A model of li.py: the value model (List, Dict, Function), the two-layer *)
(* call environment Function._FunctionEnv, and the list and comparison    *)
(* built-ins.                                                              *)
(*                                                                         *)
(* Python objects that are shared by reference are modelled by identity:   *)
(* an environment map is an index into maps, a Function an index into      *)
(* funcs, a List an index into lists.  A Dict's payload is itself an       *)
(* environment map (Dict.__init__ hands self.val to its Functions).        *)
(*                                                                         *)
(* _Eval and _ExecList are not part of li.py.  The statements of a body    *)
(* are therefore steps of the model, taken between FunctionEval and Return *)
(* on the _FunctionEnv that Function.Eval hands to _ExecList: an           *)
(* assignment (Setitem) or a lookup (Get, Getitem).  The value of an entry *)
(* of a Dict literal is a number or a definition, which evaluates to a new *)
(* Function.                                                               *)
(*                                                                         *)
(* Scope: one application runs at a time, and there is at most one Dict    *)
(* and one List.                                                           *)
(***************************************************************************)
EXTENDS Integers, Sequences, FiniteSets, TLC

VARIABLES
    maps,      \* the environment maps (dict objects), by identity
    dicts,     \* the identities in maps that are the payload of a Dict
    funcs,     \* the Function objects: _env (an identity in maps), _params
    lists,     \* the payloads of the List objects
    stack,     \* the _FunctionEnv of the running application: <<>> when none runs
    last,      \* the operation just performed, its inputs and what it gave
    calls,     \* per Function, how many applications of the counter body ended
    eqArgs,    \* the argument payloads handed to eq / neq
    eqOut      \* what eq and neq returned for eqArgs

vars == <<maps, dicts, funcs, lists, stack, last, calls, eqArgs, eqOut>>

-----------------------------------------------------------------------------
(* Bounds *)

MaxVal      == 1   \* Number payloads are 0..MaxVal
MaxFuncs    == 1   \* Function objects constructed by a definition statement
MaxLen      == 2   \* length of a List payload
MaxCounters == 2   \* counter Functions constructed
MaxCalls    == 5   \* applications of one counter Function
MaxEqLen    == 4   \* length of the argument list of eq / neq

KeyOrder  == <<"x", "y">>
Keys      == {KeyOrder[i] : i \in 1..Len(KeyOrder)}
MaxParams == Len(KeyOrder)   \* a parameter list may repeat a name
MaxArgs   == MaxParams + 1   \* one argument more than there can be parameters
MaxIndex  == MaxLen + 1      \* indexes run over -MaxIndex..MaxIndex

-----------------------------------------------------------------------------
(* Values *)

Num(n) == [t |-> "num", v |-> n]
Fn(f)  == [t |-> "fn", v |-> f]
NoVal  == [t |-> "none", v |-> 0]    \* the key is absent from the map
Raise  == [t |-> "raise", v |-> 0]   \* the operation raised instead of returning

Nums == {Num(n) : n \in 0..MaxVal}

Seqs(S, n) == UNION {[1..m -> S] : m \in 0..n}

Min(a, b) == IF a < b THEN a ELSE b

EmptyMap == [k \in Keys |-> NoVal]

Bound(m) == {k \in Keys : m[k] # NoVal}

NoSeq == <<>>

\* the record kept in last: the operation, the Function applied, the key, the
\* index, the value written or the default, the result, the arguments of a
\* call, the two parts cut returns
Op(op, f, k, i, v, out, args, parts) ==
    [op |-> op, f |-> f, k |-> k, i |-> i, v |-> v, out |-> out,
     args |-> args, parts |-> parts]

-----------------------------------------------------------------------------
(* Function._FunctionEnv *)

\* copy() with the two update calls in the wrong order
FunctionEnvCopyDefiningWins(env, run_env) ==
    [k \in Keys |-> IF env[k] # NoVal THEN env[k] ELSE run_env[k]]

\* copy(): env = {}; env.update(self._env); env.update(self._run_env)
FunctionEnvCopy(env, run_env) ==
    [k \in Keys |-> IF run_env[k] # NoVal THEN run_env[k] ELSE env[k]]

\* get(k, default): self.copy().get(k, default)
FunctionEnvGet(env, run_env, k, default) ==
    LET c == FunctionEnvCopy(env, run_env)
    IN  IF c[k] # NoVal THEN c[k] ELSE default

\* __getitem__(k): self.copy()[k], a KeyError when k is absent
FunctionEnvGetitem(env, run_env, k) ==
    LET c == FunctionEnvCopy(env, run_env)
    IN  IF c[k] # NoVal THEN c[k] ELSE Raise

\* __setitem__ that always writes the call layer
FunctionEnvSetitemLocal(env, run_env, k, v) ==
    [env |-> env, run_env |-> [run_env EXCEPT ![k] = v]]

\* __setitem__ that writes the defining layer whenever it binds k
FunctionEnvSetitemThrough(env, run_env, k, v) ==
    IF env[k] = NoVal
    THEN [env |-> env, run_env |-> [run_env EXCEPT ![k] = v]]
    ELSE [env |-> [env EXCEPT ![k] = v], run_env |-> run_env]

\* __setitem__(k, v): the two layers after the write
FunctionEnvSetitem(env, run_env, k, v) ==
    IF run_env[k] # NoVal \/ env[k] = NoVal
    THEN [env |-> env, run_env |-> [run_env EXCEPT ![k] = v]]
    ELSE [env |-> [env EXCEPT ![k] = v], run_env |-> run_env]

-----------------------------------------------------------------------------
(* Function *)

RECURSIVE DictOfPairs(_, _, _, _)
\* dict(pairs): the pairs are stored front to back, a later pair replacing an
\* earlier one with the same key
DictOfPairs(params, args, i, d) ==
    IF i > Min(Len(params), Len(args))
    THEN d
    ELSE DictOfPairs(params, args, i + 1, [d EXCEPT ![params[i]] = args[i]])

\* dict(zip(...)) that keeps the first pair of a repeated key and binds the
\* parameters left over to the last argument
ZipParamsPadded(params, args) ==
    [k \in Keys |->
        IF \E i \in 1..Len(params) : params[i] = k
        THEN LET i == CHOOSE i \in 1..Len(params) :
                          params[i] = k /\ \A j \in 1..(i - 1) : params[j] # k
             IN  IF i <= Len(args) THEN args[i]
                 ELSE IF Len(args) > 0 THEN args[Len(args)] ELSE NoVal
        ELSE NoVal]

\* dict(zip(self._params, args)): zip stops at the shorter of the two
ZipParams(params, args) == DictOfPairs(params, args, 1, EmptyMap)

\* the _FunctionEnv of the running application
Top == stack[Len(stack)]

AmbientId == 1

\* env.copy() of the environment a definition is evaluated in: the plain
\* top-level map, or the _FunctionEnv of the running application
AmbientCopy ==
    IF stack = <<>>
    THEN maps[AmbientId]
    ELSE FunctionEnvCopy(maps[funcs[Top.f]._env], Top._run_env)

\* the map a definition is evaluated over: the top-level map, or the defining
\* layer of the running application
AmbientMapId == IF stack = <<>> THEN AmbientId ELSE funcs[Top.f]._env

\* self._env = env, without the copy: the Function shares the map it was
\* defined over
FunctionEnvShared(fresh, defined_over) == defined_over

\* self._env = env.copy(): the defining layer is a map of its own
FunctionEnvOf(fresh, defined_over) == fresh

\* Function.__init__(d, env): self._env = env.copy(), self._params = d['params']
FunctionInitCore(params) ==
    /\ maps' = Append(maps, AmbientCopy)
    /\ funcs' = Append(funcs, [_env |-> FunctionEnvOf(Len(maps) + 1, AmbientMapId),
                               _params |-> params])
    /\ last' = Op("def", Len(funcs) + 1, "-", 0, NoVal, NoVal, params, NoSeq)

\* a definition statement, at top level or in the body of an application
FunctionInit(params) ==
    /\ Len(funcs) < MaxFuncs
    /\ FunctionInitCore(params)
    /\ UNCHANGED <<dicts, lists, stack, calls, eqArgs, eqOut>>

\* Function.Eval(args) up to the call of _ExecList: the _FunctionEnv of the
\* application, over the Function's defining layer and a new call layer
FunctionEval(f, args) ==
    /\ stack = <<>>
    /\ f \in 1..Len(funcs)
    /\ stack' = Append(stack, [f |-> f, _run_env |-> ZipParams(funcs[f]._params, args)])
    /\ last' = Op("call", f, "-", 0, NoVal, NoVal, args, NoSeq)
    /\ UNCHANGED <<maps, dicts, funcs, lists, calls, eqArgs, eqOut>>

\* _ExecList returns: the _FunctionEnv of the application is dropped
Return ==
    /\ stack # <<>>
    /\ stack' = SubSeq(stack, 1, Len(stack) - 1)
    /\ last' = Op("ret", Top.f, "-", 0, NoVal, NoVal, NoSeq, NoSeq)
    /\ UNCHANGED <<maps, dicts, funcs, lists, calls, eqArgs, eqOut>>

\* a statement of the body assigns env[k] = v
Setitem(k, v) ==
    /\ stack # <<>>
    /\ LET e == funcs[Top.f]._env
           r == FunctionEnvSetitem(maps[e], Top._run_env, k, v)
       IN  /\ maps' = [maps EXCEPT ![e] = r.env]
           /\ stack' = [stack EXCEPT ![Len(stack)]._run_env = r.run_env]
    /\ last' = Op("set", Top.f, k, 0, v, NoVal, NoSeq, NoSeq)
    /\ UNCHANGED <<dicts, funcs, lists, calls, eqArgs, eqOut>>

\* a statement of the body reads env.get(k, default)
Get(k, default) ==
    /\ stack # <<>>
    /\ last' = Op("get", Top.f, k, 0, default,
                  FunctionEnvGet(maps[funcs[Top.f]._env], Top._run_env, k, default),
                  NoSeq, NoSeq)
    /\ UNCHANGED <<maps, dicts, funcs, lists, stack, calls, eqArgs, eqOut>>

\* a statement of the body reads env[k]
Getitem(k) ==
    /\ stack # <<>>
    /\ last' = Op("getitem", Top.f, k, 0, NoVal,
                  FunctionEnvGetitem(maps[funcs[Top.f]._env], Top._run_env, k),
                  NoSeq, NoSeq)
    /\ UNCHANGED <<maps, dicts, funcs, lists, stack, calls, eqArgs, eqOut>>

-----------------------------------------------------------------------------
(* Dict *)

\* a raw Dict literal: per key, no entry, a number, or a definition record
\* {'params': ...} that _Eval turns into a new Function
RawNone     == [t |-> "none", v |-> 0, params |-> NoSeq]
RawNum(n)   == [t |-> "num", v |-> n, params |-> NoSeq]
RawDef(p)   == [t |-> "def", v |-> 0, params |-> p]
\* the parameter lists of the definitions in a Dict literal, and the argument
\* lists their Functions are applied to: empty or of one element
HostedParams == {<<>>} \cup {<<k>> : k \in Keys}
HostedArgs   == {<<>>} \cup {<<v>> : v \in Nums}
RawEntries  == {RawNone} \cup {RawNum(n) : n \in 0..MaxVal}
                         \cup {RawDef(p) : p \in HostedParams}

\* the positions in KeyOrder, up to i, of the keys whose entry is a definition
DefsUpTo(val, i) == {j \in 1..i : val[KeyOrder[j]].t = "def"}

\* the key of the n-th definition of the literal
NthDefKey(val, n) ==
    KeyOrder[CHOOSE j \in 1..Len(KeyOrder) :
                 val[KeyOrder[j]].t = "def" /\ Cardinality(DefsUpTo(val, j)) = n]

\* Dict.__init__ without its last loop: the Functions keep the snapshot of the
\* environment the literal was evaluated in
DictFunctionEnvSnapshot(payload, ambient) == ambient

\* Dict.__init__, lines 122-124: v._env = self.val for every Function value
DictFunctionEnv(payload, ambient) == payload

\* Dict.__init__(val, env): the values are evaluated, then every value that is
\* a Function gets the payload as its defining layer.  The snapshot that
\* Function.__init__ took is dropped by that assignment.
DictInit(val) ==
    /\ dicts = {}
    /\ LET d  == Len(maps) + 1
           nf == Cardinality(DefsUpTo(val, Len(KeyOrder)))
           id(k) == Len(funcs) +
                    Cardinality(DefsUpTo(val, CHOOSE j \in 1..Len(KeyOrder) : KeyOrder[j] = k))
           payload == [k \in Keys |->
                          CASE val[k].t = "none" -> NoVal
                            [] val[k].t = "num"  -> Num(val[k].v)
                            [] val[k].t = "def"  -> Fn(id(k))]
       IN  /\ maps' = Append(maps, payload)
           /\ dicts' = dicts \cup {d}
           /\ funcs' = funcs \o
                  [n \in 1..nf |->
                      [_env |-> DictFunctionEnv(d, AmbientId),
                       _params |-> val[NthDefKey(val, n)].params]]
           /\ last' = Op("dict", 0, "-", 0, NoVal, NoVal, NoSeq, NoSeq)
    /\ UNCHANGED <<lists, stack, calls, eqArgs, eqOut>>

\* _Del applied to a Dict and a key: dict.pop(k) removes the entry and returns
\* its value, a KeyError when the key is absent
DelDict(d, k) ==
    /\ d \in dicts
    /\ IF maps[d][k] = NoVal
       THEN /\ last' = Op("deldict", 0, k, 0, NoVal, Raise, NoSeq, NoSeq)
            /\ UNCHANGED maps
       ELSE /\ last' = Op("deldict", 0, k, 0, NoVal, maps[d][k], NoSeq, NoSeq)
            /\ maps' = [maps EXCEPT ![d][k] = NoVal]
    /\ UNCHANGED <<dicts, funcs, lists, stack, calls, eqArgs, eqOut>>

\* the Functions stored directly as values of Dict d
Hosted(d) == {f \in 1..Len(funcs) : \E k \in Keys : maps[d][k] = Fn(f)}

-----------------------------------------------------------------------------
(* List and the list built-ins *)

\* List.__init__(val, env): the payload is a copy of val, its elements evaluated
ListInit(val) ==
    /\ lists = <<>>
    /\ lists' = Append(lists, val)
    /\ last' = Op("list", 0, "-", 0, NoVal, NoVal, NoSeq, NoSeq)
    /\ UNCHANGED <<maps, dicts, funcs, stack, calls, eqArgs, eqOut>>

\* where list.insert and a slice bound put index i in a list of length n:
\* a negative index counts from the end, and the result is clamped to 0..n
ClampIndex(n, i) ==
    LET j == IF i < 0 THEN i + n ELSE i
    IN  IF j < 0 THEN 0 ELSE IF j > n THEN n ELSE j

\* list.insert(i, v)
ListInsert(s, i, v) ==
    LET j == ClampIndex(Len(s), i)
    IN  SubSeq(s, 1, j) \o <<v>> \o SubSeq(s, j + 1, Len(s))

\* list.pop(i) that clamps the index the way insert does
ListPopClamped(s, i) ==
    LET j == IF ClampIndex(Len(s), i) = Len(s) THEN Len(s) - 1 ELSE ClampIndex(Len(s), i)
    IN  IF Len(s) = 0
        THEN [out |-> Raise, val |-> s]
        ELSE [out |-> s[j + 1], val |-> SubSeq(s, 1, j) \o SubSeq(s, j + 2, Len(s))]

\* list.pop(i): the element removed and the list left, or an IndexError and
\* the list as it was
ListPop(s, i) ==
    LET j == IF i < 0 THEN i + Len(s) ELSE i
    IN  IF j < 0 \/ j >= Len(s)
        THEN [out |-> Raise, val |-> s]
        ELSE [out |-> s[j + 1], val |-> SubSeq(s, 1, j) \o SubSeq(s, j + 2, Len(s))]

\* the slices s[:i] and s[i:]
ListCut(s, i) ==
    LET j == ClampIndex(Len(s), i)
    IN  <<SubSeq(s, 1, j), SubSeq(s, j + 1, Len(s))>>

\* _Ins(args): args[0].val.insert(args[1].val, args[2]); return args[2]
Ins(l, i, v) ==
    /\ l \in 1..Len(lists)
    /\ Len(lists[l]) < MaxLen
    /\ lists' = [lists EXCEPT ![l] = ListInsert(lists[l], i, v)]
    /\ last' = Op("ins", l, "-", i, v, v, NoSeq, NoSeq)
    /\ UNCHANGED <<maps, dicts, funcs, stack, calls, eqArgs, eqOut>>

\* _Del(args): return args[0].val.pop(args[1].val)
Del(l, i) ==
    /\ l \in 1..Len(lists)
    /\ LET r == ListPop(lists[l], i)
       IN  /\ lists' = [lists EXCEPT ![l] = r.val]
           /\ last' = Op("del", l, "-", i, NoVal, r.out, NoSeq, NoSeq)
    /\ UNCHANGED <<maps, dicts, funcs, stack, calls, eqArgs, eqOut>>

\* _Cut(args): [Lit(args[0].val[:i]), Lit(args[0].val[i:])]
Cut(l, i) ==
    /\ l \in 1..Len(lists)
    /\ last' = Op("cut", l, "-", i, NoVal, NoVal, NoSeq, ListCut(lists[l], i))
    /\ UNCHANGED <<maps, dicts, funcs, lists, stack, calls, eqArgs, eqOut>>

Indexes == (0 - MaxIndex)..MaxIndex

-----------------------------------------------------------------------------
(* Initial state and the specifications of the environment model *)

\* the top-level environments the host may supply: x = 0, and y = 0 or unbound
Ambient == [k \in Keys |-> IF k = "x" THEN Num(0) ELSE NoVal]
Ambients == {Ambient, [k \in Keys |-> Num(0)]}

NoOp == Op("init", 0, "-", 0, NoVal, NoVal, NoSeq, NoSeq)

Init ==
    /\ maps \in {<<a>> : a \in Ambients}
    /\ dicts = {}
    /\ funcs = <<>>
    /\ lists = <<>>
    /\ stack = <<>>
    /\ last = NoOp
    /\ calls = <<>>
    /\ eqArgs = <<>>
    /\ eqOut = [op |-> "none", out |-> FALSE]

\* Functions defined by statements, applied one at a time
Next ==
    \/ \E p \in Seqs(Keys, MaxParams) : FunctionInit(p)
    \/ \E f \in 1..Len(funcs), a \in Seqs(Nums, MaxArgs) : FunctionEval(f, a)
    \/ Return
    \/ \E k \in Keys, v \in Nums : Setitem(k, v)
    \/ \E k \in Keys : Get(k, Num(MaxVal))
    \/ \E k \in Keys : Getitem(k)

Spec == Init /\ [][Next]_vars

\* a Dict, the Functions it hosts (of no or one parameter, applied to no or
\* one argument), and a List of zeros changed at its front
NextDict ==
    \/ \E val \in [Keys -> RawEntries] : DictInit(val)
    \/ \E d \in dicts, k \in Keys : DelDict(d, k)
    \/ \E f \in 1..Len(funcs), a \in HostedArgs : FunctionEval(f, a)
    \/ Return
    \/ \E k \in Keys, v \in Nums : Setitem(k, v)
    \/ \E k \in Keys : Get(k, Num(MaxVal))
    \/ \E val \in Seqs({Num(0)}, MaxLen) : ListInit(val)
    \/ \E l \in 1..Len(lists) : Ins(l, 0, Num(0))
    \/ \E l \in 1..Len(lists) : Del(l, 0)

SpecDict == Init /\ [][NextDict]_vars

\* the list built-ins on a List
NextList ==
    \/ \E val \in Seqs(Nums, MaxLen) : ListInit(val)
    \/ \E l \in 1..Len(lists), i \in Indexes, v \in Nums : Ins(l, i, v)
    \/ \E l \in 1..Len(lists), i \in Indexes : Del(l, i)
    \/ \E l \in 1..Len(lists), i \in Indexes : Cut(l, i)

SpecList == Init /\ [][NextList]_vars

-----------------------------------------------------------------------------
(* Counter closures: Functions over x = 0 whose body is [x = x + 1] *)

\* the parameter lists that do not name x
CounterParams == Seqs(Keys \ {"x"}, MaxParams)

\* a counter Function is defined at top level, over the ambient x = 0
DefCounter(params) ==
    /\ Len(funcs) < MaxCounters
    /\ stack = <<>>
    /\ FunctionInitCore(params)
    /\ calls' = Append(calls, 0)
    /\ UNCHANGED <<dicts, lists, stack, eqArgs, eqOut>>

\* Function.Eval(args) of a counter, the whole application: the call layer is
\* built, the body reads env['x'], writes env['x'] = that + 1, and the call
\* layer is dropped on return
ApplyCounter(f, args) ==
    /\ f \in 1..Len(funcs)
    /\ calls[f] < MaxCalls
    /\ LET e   == funcs[f]._env
           run == ZipParams(funcs[f]._params, args)
           old == FunctionEnvGetitem(maps[e], run, "x")
           r   == FunctionEnvSetitem(maps[e], run, "x", Num(old.v + 1))
       IN  /\ old # Raise
           /\ maps' = [maps EXCEPT ![e] = r.env]
           /\ last' = Op("apply", f, "x", 0, NoVal, old, NoSeq, NoSeq)
    /\ calls' = [calls EXCEPT ![f] = @ + 1]
    /\ UNCHANGED <<dicts, funcs, lists, stack, eqArgs, eqOut>>

NextCounter ==
    \/ \E p \in CounterParams : DefCounter(p)
    \/ \E f \in 1..Len(funcs), a \in Seqs(Nums, MaxArgs) : ApplyCounter(f, a)

SpecCounter == Init /\ [][NextCounter]_vars

-----------------------------------------------------------------------------
(* eq and neq *)

Payloads == 0..(MaxVal + 1)

\* the lambda a comparison built-in hands to _Cond
Compare(op, x, y) ==
    CASE op = "eq"  -> x = y
      [] op = "lt"  -> x < y
      [] op = "gt"  -> x > y
      [] op = "lte" -> x <= y
      [] op = "gte" -> x >= y

\* _Cond that looks at the first pair only
CondFirstPair(op, val) == Len(val) < 2 \/ Compare(op, val[1], val[2])

\* _Cond(func, val): all(func(val[i].val, val[i + 1].val) for i in range(len(val) - 1))
Cond(op, val) == \A i \in 0..(Len(val) - 2) : Compare(op, val[i + 1], val[i + 2])

\* _Eq(args)
Eq(args) == Cond("eq", args)

\* _NEq(args): not _Eq(args)
NEq(args) == ~Eq(args)

InitEq ==
    /\ maps = <<Ambient>>
    /\ dicts = {}
    /\ funcs = <<>>
    /\ lists = <<>>
    /\ stack = <<>>
    /\ last = NoOp
    /\ calls = <<>>
    /\ eqArgs \in Seqs(Payloads, MaxEqLen)
    /\ eqOut = [op |-> "none", out |-> FALSE]

ApplyEq ==
    /\ eqOut' = [op |-> "eq", out |-> Eq(eqArgs)]
    /\ UNCHANGED <<maps, dicts, funcs, lists, stack, last, calls, eqArgs>>

ApplyNEq ==
    /\ eqOut' = [op |-> "neq", out |-> NEq(eqArgs)]
    /\ UNCHANGED <<maps, dicts, funcs, lists, stack, last, calls, eqArgs>>

NextEq == ApplyEq \/ ApplyNEq

SpecEq == InitEq /\ [][NextEq]_vars
-----------------------------------------------------------------------------
(* Properties of the call environment (Spec) *)

\* the two layers of the running application, before and after a step
LayerD  == maps[funcs[Top.f]._env]
LayerR  == Top._run_env
LayerD2 == maps'[funcs[Top.f]._env]
LayerR2 == stack'[Len(stack')]._run_env

\* C1: a write k := v goes to the call layer, leaving the defining layer as it
\* was, when the call layer binds k or the defining layer does not; otherwise
\* it goes to the defining layer, leaving the call layer as it was.  No other
\* key of either layer changes.
C1_WriteRule ==
    [][last'.op = "set" =>
          LET k == last'.k
              v == last'.v
          IN  IF LayerR[k] # NoVal \/ LayerD[k] = NoVal
              THEN /\ LayerR2[k] = v
                   /\ \A j \in Keys \ {k} : LayerR2[j] = LayerR[j]
                   /\ LayerD2 = LayerD
              ELSE /\ LayerD2[k] = v
                   /\ \A j \in Keys \ {k} : LayerD2[j] = LayerD[j]
                   /\ LayerR2 = LayerR]_vars

\* a write of x has gone through to the defining layer: the call layer does
\* not bind x and the defining layer holds the value written, not the 0 it
\* was constructed with
C1_Witness ==
    /\ stack # <<>>
    /\ last.op = "set" /\ last.k = "x" /\ last.v = Num(1)
    /\ LayerR["x"] = NoVal
    /\ LayerD["x"] = Num(1)

\* C3, as claimed: an assignment to a name in the Function's parameter list
\* is written to the call layer and leaves the defining layer's binding of
\* that name as it was, whatever arguments were supplied.
C3_ParamWriteStaysLocal ==
    [][(last'.op = "set" /\ \E i \in 1..Len(funcs[Top.f]._params) :
                                funcs[Top.f]._params[i] = last'.k)
          => /\ LayerD2[last'.k] = LayerD[last'.k]
             /\ LayerR2[last'.k] = last'.v]_vars

\* C6: a lookup of k gives the call layer's binding when there is one,
\* otherwise the defining layer's when there is one; get gives its default
\* when neither binds k.  A lookup changes neither layer.
C6_ReadRule ==
    [][last'.op \in {"get", "getitem"} =>
          LET k == last'.k
          IN  /\ LayerR[k] # NoVal => last'.out = LayerR[k]
              /\ (LayerR[k] = NoVal /\ LayerD[k] # NoVal) => last'.out = LayerD[k]
              /\ (LayerR[k] = NoVal /\ LayerD[k] = NoVal /\ last'.op = "get")
                     => last'.out = last'.v
              /\ maps' = maps
              /\ stack' = stack]_vars

\* both layers bind x, to different values, and the lookup gave the call
\* layer's
C6_Witness ==
    /\ stack # <<>>
    /\ last.op = "get" /\ last.k = "x"
    /\ LayerR["x"] # NoVal /\ LayerD["x"] # NoVal /\ LayerR["x"] # LayerD["x"]
    /\ last.out = LayerR["x"]

\* the parameters and arguments of the application just begun
CallParams == funcs[last.f]._params
CallArity  == Min(Len(CallParams), Len(last.args))

\* C7, as claimed: the call layer of a new application binds exactly p_i to
\* a_i for i = 1..min(m, n) and nothing else.
C7_BindsEachParamToItsArg ==
    last.op = "call" =>
        /\ \A i \in 1..CallArity : LayerR[CallParams[i]] = last.args[i]
        /\ \A k \in Keys : (\A i \in 1..CallArity : CallParams[i] # k) => LayerR[k] = NoVal

\* C7, amended: the call layer of a new application binds each name among
\* p_1..p_min(m,n) to the argument at the last position where the name stands,
\* and binds no other name; it depends on nothing but the parameters and the
\* arguments of this application.
C7_ZipBinding ==
    last.op = "call" =>
        \A k \in Keys :
            LET at == {i \in 1..CallArity : CallParams[i] = k}
            IN  IF at = {}
                THEN LayerR[k] = NoVal
                ELSE \E i \in at : (\A j \in at : j <= i) /\ LayerR[k] = last.args[i]

\* parameters [x, y] applied to one argument: x is bound to it, y is unbound
C7_Witness ==
    /\ last.op = "call"
    /\ CallParams = <<"x", "y">>
    /\ Len(last.args) = 1
    /\ LayerR["x"] = last.args[1]
    /\ LayerR["y"] = NoVal

-----------------------------------------------------------------------------
(* Properties of Dict-hosted Functions and of containers (SpecDict) *)

\* C4: every Function stored directly in a Dict has the Dict's payload, the
\* map itself, as its defining layer; so a read of k through the call
\* environment of such a Function, when its call layer does not bind k, gives
\* the payload's current entry k, whoever wrote it.
C4_SiblingSharing ==
    \A d \in dicts : \A f \in Hosted(d) :
        /\ funcs[f]._env = d
        /\ (stack # <<>> /\ Top.f = f /\ last.op = "get"
               /\ LayerR[last.k] = NoVal /\ maps[d][last.k] # NoVal)
              => last.out = maps[d][last.k]

\* the Dict was built from two definitions; the entry y, which held the
\* second Function, was overwritten by a through-write, and the first
\* Function, still stored at x, reads the number written
C4_Witness ==
    \E d \in dicts :
        /\ Len(funcs) = 2
        /\ stack # <<>> /\ Top.f = 1 /\ 1 \in Hosted(d)
        /\ last.op = "get" /\ last.k = "y"
        /\ LayerR["y"] = NoVal
        /\ maps[d]["y"] = Num(0)
        /\ last.out = Num(0)

\* what a step leaves alone
ListsSame == \A l \in 1..Len(lists) : lists'[l] = lists[l]
DictsSame == \A d \in dicts : maps'[d] = maps[d]

\* C5, as claimed: the payload of a constructed List or Dict changes only by
\* the explicit mutating built-ins ins and del; no function application or
\* variable assignment changes it.  (del is excepted here whatever it is
\* applied to, so that what refutes the claim is an assignment.)
C5_OnlyInsDelChange ==
    [][(ListsSame /\ DictsSame) \/ last'.op \in {"ins", "del", "deldict"}]_vars

\* C5, amended: a List's payload changes only by ins or del applied to it.  A
\* Dict's payload changes only by del applied to the Dict, which removes one
\* key, or by an assignment k := v in an application of a Function whose
\* defining layer is that payload, when the payload binds k and the call layer
\* does not: entry k becomes v.  No step adds a key to a Dict's payload.
C5_ContainerChanges ==
    [][/\ \A l \in 1..Len(lists) :
              lists'[l] # lists[l] => (last'.op \in {"ins", "del"} /\ last'.f = l)
       /\ \A d \in dicts :
              maps'[d] # maps[d] =>
                  \/ /\ last'.op = "deldict"
                     /\ maps'[d] = [maps[d] EXCEPT ![last'.k] = NoVal]
                  \/ /\ last'.op = "set"
                     /\ funcs[Top.f]._env = d
                     /\ maps[d][last'.k] # NoVal
                     /\ LayerR[last'.k] = NoVal
                     /\ maps'[d] = [maps[d] EXCEPT ![last'.k] = last'.v]
       /\ \A d \in dicts : Bound(maps'[d]) \subseteq Bound(maps[d])]_vars

\* a hosted Function has assigned y, which its call layer does not bind: the
\* entry y of the Dict, constructed as a Function, now holds the number
C5_Witness ==
    \E d \in dicts :
        /\ Len(funcs) = 2
        /\ stack # <<>> /\ funcs[Top.f]._env = d
        /\ last.op = "set" /\ last.k = "y" /\ last.v = Num(1)
        /\ LayerR["y"] = NoVal
        /\ maps[d]["y"] = Num(1)

\* C10: the defining layer of a Function stored directly in a Dict binds
\* exactly the Dict's keys; looking up, through its call environment, a name
\* that neither the Dict nor the call layer binds gives get's default, also
\* when the environment the Dict was constructed in binds the name.
C10_AmbientNotSeen ==
    \A d \in dicts : \A f \in Hosted(d) :
        /\ Bound(maps[funcs[f]._env]) = Bound(maps[d])
        /\ (stack # <<>> /\ Top.f = f /\ last.op = "get"
               /\ maps[d][last.k] = NoVal /\ LayerR[last.k] = NoVal)
              => last.out = last.v

\* the ambient environment binds x, the Dict does not, and a lookup of x by a
\* hosted Function that has no binding of x in its call layer gave the default
C10_Witness ==
    \E d \in dicts :
        /\ stack # <<>> /\ Top.f \in Hosted(d)
        /\ maps[AmbientId]["x"] = Num(0)
        /\ maps[d]["x"] = NoVal
        /\ LayerR["x"] = NoVal
        /\ last.op = "get" /\ last.k = "x"
        /\ last.out = last.v /\ last.v # Num(0)

-----------------------------------------------------------------------------
(* Properties of the list built-ins (SpecList) *)

\* index i is outside a list of length n: for del no element stands there,
\* for ins and cut it lies beyond either end
OutOfRange(op, n, i) ==
    IF op = "del" THEN i < 0 - n \/ i >= n ELSE i < 0 - n \/ i > n

\* C8, as claimed: ins, del and cut with an index outside the list's range
\* return nothing and raise.
C8_OutOfRangeRaises ==
    [][(last'.op \in {"ins", "del", "cut"}
           /\ OutOfRange(last'.op, Len(lists[last'.f]), last'.i))
          => last'.out = Raise]_vars

\* C8, amended: del raises exactly when the index is outside the list's range
\* and then leaves the list as it was.  ins and cut never raise: an index
\* beyond an end is taken as that end, so ins appends or prepends and returns
\* the value, and cut returns the whole list and an empty part.
C8_OnlyDelRaises ==
    [][last'.op \in {"ins", "del", "cut"} =>
          LET old == lists[last'.f]
              n   == Len(old)
              i   == last'.i
              oor == OutOfRange(last'.op, n, i)
          IN  /\ last'.op = "del" =>
                     /\ (last'.out = Raise) <=> oor
                     /\ oor => lists' = lists
              /\ last'.op = "ins" =>
                     /\ last'.out = last'.v
                     /\ oor => lists'[last'.f] =
                                   IF i > n THEN Append(old, last'.v)
                                            ELSE <<last'.v>> \o old
              /\ last'.op = "cut" =>
                     /\ last'.out # Raise
                     /\ lists' = lists
                     /\ oor => last'.parts =
                                   IF i > n THEN <<old, <<>>>> ELSE <<<<>>, old>>]_vars

\* del was applied to a non-empty list at an index past its end and raised
C8_Witness ==
    /\ last.op = "del"
    /\ Len(lists[last.f]) > 0
    /\ last.i >= Len(lists[last.f])
    /\ last.out = Raise

-----------------------------------------------------------------------------
(* Properties of counter closures (SpecCounter) *)

\* C2: after n applications of a counter Function the x of its defining
\* layer is n, the n-th application having read n - 1; the applications of
\* one counter do not show in the x of another.
C2_CounterPersists ==
    /\ \A f \in 1..Len(funcs) : maps[funcs[f]._env]["x"] = Num(calls[f])
    /\ last.op = "apply" => last.out = Num(calls[last.f] - 1)

\* F was applied three times and holds 3; G, never applied, holds 0
C2_Witness ==
    /\ Len(funcs) >= 2
    /\ calls[1] = 3 /\ calls[2] = 0
    /\ last.op = "apply" /\ last.f = 1 /\ last.out = Num(2)
    /\ maps[funcs[1]._env]["x"] = Num(3)
    /\ maps[funcs[2]._env]["x"] = Num(0)

-----------------------------------------------------------------------------
(* Properties of eq and neq (SpecEq) *)

AdjacentEqual == \A i \in 1..(Len(eqArgs) - 1) : eqArgs[i] = eqArgs[i + 1]

\* C9: eq is true exactly when the payloads at every two adjacent positions
\* are equal, so for no or one argument; neq is its negation.
C9_PairwiseEq ==
    /\ eqOut.op = "eq" => (eqOut.out <=> AdjacentEqual)
    /\ eqOut.op = "neq" => (eqOut.out <=> ~AdjacentEqual)
    /\ (eqOut.op = "eq" /\ Len(eqArgs) <= 1) => eqOut.out
    /\ (eqOut.op = "neq" /\ Len(eqArgs) <= 1) => ~eqOut.out

\* eq of three arguments, the first two equal and the third different, is false
C9_Witness ==
    /\ eqOut.op = "eq"
    /\ Len(eqArgs) = 3
    /\ eqArgs[1] = eqArgs[2] /\ eqArgs[2] # eqArgs[3]
    /\ ~eqOut.out
====
